---- MODULE Spec2Model ----
(***************************************************************************)
(* Model of passenger-exporter (src/main.go): the stable process           *)
(* identifier assignment (updateProcesses), the poll (Exporter.Collect)    *)
(* and the timeout-guarded status command (Exporter.status).               *)
(***************************************************************************)
EXTENDS Integers, Sequences, FiniteSets, TLC

(***************************************************************************)
(* Bounds of the model.                                                    *)
(***************************************************************************)
\* Number of distinct pids the status output can mention.
NumPids == 3
\* Largest max pool size (info.MaxProcessCount) a status output reports.
MaxCap == 3
\* Number of scrapes the HTTP handler serves at the same time.
NumPollers == 2
\* Largest whole second of the spawn start times tried one by one.
MaxSeconds == 2

PidNames == <<"abc", "cdf", "dfe", "efg", "newPID", "newPID2", "def", "hij", "klm">>
Pids == {PidNames[i] : i \in 1..NumPids}

VARIABLES
    \* updateProcesses called as the tests' newUpdateProcessSpec calls it
    old,            \* the previous map handed to updateProcesses
    processes,      \* the process list handed to updateProcesses
    maxProcesses,   \* the capacity handed to updateProcesses
    upc,            \* "input", "called" (spec.output computed), "again"
    output,         \* result of the first call
    newOutput,      \* result of the call on the first call's output
    \* the exporter and its polls (Exporter.Collect)
    processIdentifiers, \* the package-level map of main.go:136
    phase,              \* "idle", "scraping" (a poll was triggered), "crashed"
    lastFetch,          \* how the status command of the last poll ended
    emitted,            \* the metrics the poll has sent on its channel
    \* one call of Exporter.status
    timeout,        \* Exporter.timeout, in milliseconds
    cpc,            \* where the caller of status() stands
    cmdProcess,     \* the status command: "none", "running", "exited", "reaped"
    exitCode,       \* its exit status (9: killed); 0 while it runs
    stdout,         \* the document it wrote to its standard output
    spawned,        \* how many processes cmd.Start has started
    waiter,         \* the goroutine of line 307: "none", "waiting", "sending", "finished"
    waitErr,        \* what cmd.Wait returned to it
    timer,          \* the timer of time.After: "none", "armed", "fired", "read"
    done,           \* the buffer of the done channel
    selCase,        \* the case the select took: "none", "timeout", "done"
    readyAtSelect,  \* the cases that could proceed when the select took one
    recvErr,        \* the value received from done
    killRes,        \* cmd.Process.Kill: "none", "ok", "failed"
    ret,            \* what status() returned
    firedBeforeExit,  \* the timer fired while the command was running
    exitedBeforeFire, \* the command exited before the timer fired
    \* scrapes served at the same time, each in its own call of Collect
    polls,          \* for each of them: where it stands and its locals
    \* what earlier calls and polls left behind
    prevCutOff,     \* the pids the call of updateProcesses before cut off
    prevLabels,     \* pid -> <<group, slot label>> of the last successful poll
    prevCap,        \* the max pool size of the last successful poll
    idsBefore,      \* processIdentifiers when the last poll began
    failedSince     \* a poll failed since the last successful poll

\* The maps a caller of updateProcesses holds (Go maps are references)
VARIABLES
    heap,           \* reference -> the entries of the map it refers to
    argRef,         \* the reference passed as the previous map
    retRef,         \* the reference the call returned, NoRef before it returns
    heapBefore      \* heap when the last call began

updVars == <<old, processes, maxProcesses, upc, output, newOutput>>
colVars == <<processIdentifiers, phase, lastFetch, emitted>>
stVars == <<cpc, cmdProcess, exitCode, stdout, spawned, waiter, waitErr, timer, done,
            selCase, readyAtSelect, recvErr, killRes, ret, firedBeforeExit,
            exitedBeforeFire>>
conVars == <<polls>>
histVars == <<prevCutOff, prevLabels, prevCap, idsBefore, failedSince>>
heapVars == <<heap, argRef, retRef, heapBefore>>
vars == <<updVars, colVars, timeout, heapVars, stVars, conVars, histVars>>

(***************************************************************************)
(* Go maps as functions with a finite domain.                              *)
(***************************************************************************)
EmptyMap == [x \in {} |-> 0]

Put(m, k, v) == [x \in (DOMAIN m) \cup {k} |-> IF x = k THEN v ELSE m[x]]

Range(f) == {f[x] : x \in DOMAIN f}

Injective(f) == \A x, y \in DOMAIN f : f[x] = f[y] => x = y

Min(a, b) == IF a < b THEN a ELSE b

PidIndex(pid) == CHOOSE i \in 1..Len(PidNames) : PidNames[i] = pid

\* A Process of the status output; only the fields the exporter reads.  The
\* figures of a process are told apart by its pid.
Process(pid) ==
    [PID |-> pid,
     RealMemory |-> 1000 * PidIndex(pid),
     RequestsProcessed |-> 10 * PidIndex(pid),
     SpawnStartTime |-> 1500000 * PidIndex(pid) + 250]

\* make([]string, n): n empty strings.
MakeStrings(n) == [i \in 1..n |-> ""]

(***************************************************************************)
(* updateProcesses, src/main.go:349-402.  The result is a record: panic is *)
(* TRUE when the call aborts with an index out of range at found[id], and  *)
(* updated is the returned map otherwise.                                  *)
(***************************************************************************)
\* A slip in lines 356-358: the list is not cut.
TruncateOff(procs, maxP) == procs

\* A slip in line 357: the last maxProcesses elements are kept.
TruncateTail(procs, maxP) ==
    IF Len(procs) > maxP THEN SubSeq(procs, Len(procs) - maxP + 1, Len(procs))
    ELSE procs

\* A slip in lines 356-357: one element too many is kept.
TruncateOneMore(procs, maxP) ==
    IF Len(procs) > maxP + 1 THEN SubSeq(procs, 1, maxP + 1) ELSE procs

\* main.go:356-358
Truncate(procs, maxP) ==
    IF Len(procs) > maxP THEN SubSeq(procs, 1, maxP) ELSE procs

\* A slip in the lookup of line 361: no pid is taken as known, so that every
\* pid is placed as a new one.
RECURSIVE PartitionLoopForgets(_, _, _, _, _)
PartitionLoopForgets(oldMap, procs, k, found, missing) ==
    IF k > Len(procs)
    THEN [panic |-> FALSE, found |-> found, missing |-> missing]
    ELSE PartitionLoopForgets(oldMap, procs, k + 1, found,
                              Append(missing, procs[k].PID))

\* main.go:360-376, the loop from its k-th element on
RECURSIVE PartitionLoop(_, _, _, _, _)
PartitionLoop(oldMap, procs, k, found, missing) ==
    IF k > Len(procs)
    THEN [panic |-> FALSE, found |-> found, missing |-> missing]
    ELSE LET pid == procs[k].PID IN
         IF pid \in DOMAIN oldMap
         THEN LET id == oldMap[pid] IN
              IF id < 0 \/ id >= Len(found)
              THEN [panic |-> TRUE, found |-> found, missing |-> missing]
              ELSE PartitionLoop(oldMap, procs, k + 1,
                                 [found EXCEPT ![id + 1] = pid], missing)
         ELSE PartitionLoop(oldMap, procs, k + 1, found, Append(missing, pid))

\* A slip in line 387: the slot written is one past the index.
RECURSIVE AssignLoopOffByOne(_, _, _, _, _)
AssignLoopOffByOne(found, missing, i, j, updated) ==
    IF i >= Len(found)
    THEN [j |-> j, updated |-> updated]
    ELSE IF found[i + 1] = ""
         THEN IF j >= Len(missing)
              THEN AssignLoopOffByOne(found, missing, i + 1, j, updated)
              ELSE AssignLoopOffByOne(found, missing, i + 1, j + 1,
                                      Put(updated, missing[j + 1], i + 1))
         ELSE AssignLoopOffByOne(found, missing, i + 1, j,
                                 Put(updated, found[i + 1], i + 1))

\* A slip in line 384: the new pids are taken from the end of missing.
RECURSIVE AssignLoopFromEnd(_, _, _, _, _)
AssignLoopFromEnd(found, missing, i, j, updated) ==
    IF i >= Len(found)
    THEN [j |-> j, updated |-> updated]
    ELSE IF found[i + 1] = ""
         THEN IF j >= Len(missing)
              THEN AssignLoopFromEnd(found, missing, i + 1, j, updated)
              ELSE AssignLoopFromEnd(found, missing, i + 1, j + 1,
                                     Put(updated, missing[Len(missing) - j], i))
         ELSE AssignLoopFromEnd(found, missing, i + 1, j,
                                Put(updated, found[i + 1], i))

\* A slip in line 387: a new pid is given the cursor j of missing as its
\* slot, not the index i of found.
RECURSIVE AssignLoopByCursor(_, _, _, _, _)
AssignLoopByCursor(found, missing, i, j, updated) ==
    IF i >= Len(found)
    THEN [j |-> j, updated |-> updated]
    ELSE IF found[i + 1] = ""
         THEN IF j >= Len(missing)
              THEN AssignLoopByCursor(found, missing, i + 1, j, updated)
              ELSE AssignLoopByCursor(found, missing, i + 1, j + 1,
                                      Put(updated, missing[j + 1], j))
         ELSE AssignLoopByCursor(found, missing, i + 1, j,
                                 Put(updated, found[i + 1], i))

\* main.go:378-388, the loop from index i on (i is the Go index, from 0)
RECURSIVE AssignLoop(_, _, _, _, _)
AssignLoop(found, missing, i, j, updated) ==
    IF i >= Len(found)
    THEN [j |-> j, updated |-> updated]
    ELSE IF found[i + 1] = ""
         THEN IF j >= Len(missing)
              THEN AssignLoop(found, missing, i + 1, j, updated)
              ELSE AssignLoop(found, missing, i + 1, j + 1,
                              Put(updated, missing[j + 1], i))
         ELSE AssignLoop(found, missing, i + 1, j, Put(updated, found[i + 1], i))

\* main.go:394-399, missing[j:] from its i-th element (Go index) on
RECURSIVE OverflowLoop(_, _, _, _, _)
OverflowLoop(missing, j, count, i, updated) ==
    IF j + i >= Len(missing)
    THEN updated
    ELSE OverflowLoop(missing, j, count, i + 1,
                      Put(updated, missing[j + i + 1], count + i))

\* main.go:394, j < len(missing): new pids are left when every index of
\* found has been looked at
OverflowTaken(oldMap, procs, maxP) ==
    LET part == PartitionLoop(oldMap, Truncate(procs, maxP), 1, MakeStrings(maxP), <<>>)
        asg  == AssignLoop(part.found, part.missing, 0, 0, EmptyMap)
    IN  ~part.panic /\ asg.j < Len(part.missing)

updateProcesses(oldMap, procs, maxP) ==
    LET cut  == Truncate(procs, maxP)
        part == PartitionLoop(oldMap, cut, 1, MakeStrings(maxP), <<>>)
        asg  == AssignLoop(part.found, part.missing, 0, 0, EmptyMap)
    IN  IF part.panic
        THEN [panic |-> TRUE, updated |-> EmptyMap]
        ELSE [panic |-> FALSE,
              updated |-> IF asg.j < Len(part.missing)
                          THEN OverflowLoop(part.missing, asg.j,
                                            Len(part.found), 0, asg.updated)
                          ELSE asg.updated]

(***************************************************************************)
(* Inputs of updateProcesses.  A previous map is one the exporter can      *)
(* hold: updateProcesses gives every pid its own slot, below the capacity  *)
(* of the poll that built the map (which may exceed the capacity of the    *)
(* next poll).  A process list names each live pid once.                   *)
(***************************************************************************)
PrevMaps ==
    {m \in UNION {[D -> 0..(MaxCap - 1)] : D \in SUBSET Pids} : Injective(m)}

PidLists ==
    {s \in UNION {[1..n -> Pids] : n \in 0..NumPids} :
        \A i, j \in DOMAIN s : s[i] = s[j] => i = j}

ProcessList(s) == [i \in DOMAIN s |-> Process(s[i])]

PidsOf(procs) == {procs[i].PID : i \in DOMAIN procs}

Capacities == 0..MaxCap

NoResult == [panic |-> FALSE, updated |-> EmptyMap]

(***************************************************************************)
(* The status document and its decoding, src/main.go:26-98 and 327-336.    *)
(***************************************************************************)
GroupNames == <<"app1", "app2">>

\* The pids of S in the order passenger-status lists them (by pid).
SortedList(S) == SelectSeq(SubSeq(PidNames, 1, NumPids), LAMBDA p : p \in S)

\* The Info a well-formed document decodes to: ng groups, pid p living in
\* group where[p] (0: not alive), max pool size cap.
MakeInfo(ng, where, cap) ==
    [PassengerVersion |-> "6.0.17",
     TopLevelRequestQueueSize |-> 1,
     MaxProcessCount |-> cap,
     CurrentProcessCount |-> Cardinality({p \in Pids : where[p] # 0}),
     AppGroupCount |-> ng,
     SuperGroups |->
        [k \in 1..ng |->
            [Name |-> GroupNames[k],
             Group |-> [RequestQueueSize |-> k,
                        ProcessesSpawning |-> 0,
                        Processes |->
                            ProcessList(SortedList({p \in Pids : where[p] = k}))]]]]

\* var info Info, before decoding
NoInfo == MakeInfo(0, [p \in Pids |-> 0], 0)

Infos ==
    UNION {{MakeInfo(ng, where, cap) :
                where \in [Pids -> 0..ng], cap \in Capacities} :
           ng \in 0..Len(GroupNames)}

\* Elements of the status document the exporter depends on: <max> of the
\* info element (main.go:31) and <processes> of a group (main.go:68).
RequiredElements == {"max", "processes"}

\* A status document: whether it is well-formed XML in a known encoding, the
\* content it carries, and the elements it lacks.
Document(wf, info, lacks) == [wellFormed |-> wf, info |-> info, lacks |-> lacks]

\* What the status command wrote to its standard output: a complete
\* document, a document of the pool at its largest that lacks one of the
\* elements, or text that is not XML.
Documents ==
    {Document(TRUE, i, {}) : i \in Infos}
    \cup {Document(TRUE, i, {e}) :
              i \in {x \in Infos : x.MaxProcessCount = MaxCap},
              e \in RequiredElements}
    \cup {Document(FALSE, NoInfo, {})}

\* error values; ms is the timeout the timed-out error reports
NilError == [kind |-> "nil", ms |-> 0]
StartError == [kind |-> "start", ms |-> 0]
ExitError == [kind |-> "exit", ms |-> 0]
XmlError == [kind |-> "xml", ms |-> 0]
\* main.go:316
TimeoutError(t) == [kind |-> "timeout", ms |-> t]

\* decoder.Decode(&info) of main.go:331 on a well-formed document: a field
\* whose element is absent keeps the zero value of var info Info, and that is
\* no error.
Decode(info, lacks) ==
    [info |->
        [info EXCEPT
            !.MaxProcessCount = IF "max" \in lacks THEN 0 ELSE @,
            !.SuperGroups =
                [k \in DOMAIN info.SuperGroups |->
                    [info.SuperGroups[k] EXCEPT !.Group.Processes =
                        IF "processes" \in lacks THEN <<>> ELSE @]]],
     err |-> NilError]

\* main.go:327-336
parseOutput(doc) ==
    IF doc.wellFormed
    THEN Decode(doc.info, doc.lacks)
    ELSE [info |-> NoInfo, err |-> XmlError]

(***************************************************************************)
(* Exporter.Collect, src/main.go:261-292.                                  *)
(***************************************************************************)
Digit(d) == SubSeq("0123456789", d + 1, d + 1)

\* strconv.Itoa
RECURSIVE Itoa(_)
Itoa(n) ==
    IF n < 0 THEN "-" \o Itoa(-n)
    ELSE IF n < 10 THEN Digit(n)
    ELSE Itoa(n \div 10) \o Digit(n % 10)

\* A slip in line 286: the quotient is rounded to the nearest integer.
QuotNearest(a, b) == (a + b \div 2) \div b

\* Go's integer division truncates toward zero.
Quot(a, b) == IF a >= 0 THEN a \div b ELSE -((-a) \div b)

microsecondsPerSecond == 1000000

\* prometheus.MustNewConstMetric(desc, kind, value, labelValues...)
Metric(name, kind, value, labels) ==
    [name |-> name, kind |-> kind, value |-> value, labels |-> labels]

UpMetric(v) == Metric("passenger_up", "gauge", v, <<>>)

\* main.go:284-288, the three metrics of one process in bucket bucketID
ProcessMetrics(sgName, proc, bucketID) ==
    <<Metric("passenger_proc_memory", "gauge", proc.RealMemory,
             <<sgName, Itoa(bucketID)>>),
      Metric("passenger_requests_processed_total", "counter",
             proc.RequestsProcessed, <<sgName, Itoa(bucketID)>>),
      Metric("passenger_proc_start_time_seconds", "gauge",
             Quot(proc.SpawnStartTime, microsecondsPerSecond),
             <<sgName, Itoa(bucketID)>>)>>

\* A slip in lines 283-289: a process without an entry ends the loop.
RECURSIVE ProcessLoopStops(_, _, _, _, _)
ProcessLoopStops(sgName, procs, k, ids, sent) ==
    IF k > Len(procs) THEN sent
    ELSE IF procs[k].PID \in DOMAIN ids
         THEN ProcessLoopStops(sgName, procs, k + 1, ids,
                  sent \o ProcessMetrics(sgName, procs[k], ids[procs[k].PID]))
         ELSE sent

\* main.go:282-290, the loop from its k-th process on
RECURSIVE ProcessLoop(_, _, _, _, _)
ProcessLoop(sgName, procs, k, ids, sent) ==
    IF k > Len(procs) THEN sent
    ELSE IF procs[k].PID \in DOMAIN ids
         THEN ProcessLoop(sgName, procs, k + 1, ids,
                          sent \o ProcessMetrics(sgName, procs[k], ids[procs[k].PID]))
         ELSE ProcessLoop(sgName, procs, k + 1, ids, sent)

\* main.go:277-278
GroupMetrics(sg) ==
    <<Metric("passenger_app_request_queue", "gauge",
             sg.Group.RequestQueueSize, <<sg.Name>>),
      Metric("passenger_app_procs_spawning", "gauge",
             sg.Group.ProcessesSpawning, <<sg.Name>>)>>

\* main.go:276-291, the loop from its k-th supergroup on.  A panic of
\* updateProcesses ends the poll with what was sent so far.
RECURSIVE SuperGroupLoop(_, _, _, _)
SuperGroupLoop(info, k, ids, sent) ==
    IF k > Len(info.SuperGroups)
    THEN [panic |-> FALSE, ids |-> ids, emitted |-> sent]
    ELSE LET sg   == info.SuperGroups[k]
             sent1 == sent \o GroupMetrics(sg)
             upd  == updateProcesses(ids, sg.Group.Processes, info.MaxProcessCount)
         IN  IF upd.panic
             THEN [panic |-> TRUE, ids |-> ids, emitted |-> sent1]
             ELSE SuperGroupLoop(info, k + 1, upd.updated,
                                 ProcessLoop(sg.Name, sg.Group.Processes, 1,
                                             upd.updated, sent1))

\* main.go:268-274
PoolMetrics(info) ==
    <<UpMetric(1),
      Metric("passenger_version", "gauge", 1, <<info.PassengerVersion>>),
      Metric("passenger_top_level_request_queue", "gauge",
             info.TopLevelRequestQueueSize, <<>>),
      Metric("passenger_max_processes", "gauge", info.MaxProcessCount, <<>>),
      Metric("passenger_current_processes", "gauge",
             info.CurrentProcessCount, <<>>),
      Metric("passenger_app_group_count", "gauge", info.AppGroupCount, <<>>)>>

\* A slip in lines 263-267: the return is missing, so that the poll goes on
\* after the failure indicator.
CollectFailedGoesOn(ids) ==
    [panic |-> FALSE, ids |-> ids,
     emitted |-> <<UpMetric(0)>> \o PoolMetrics(NoInfo)]

\* main.go:263-267
CollectFailed(ids) ==
    [panic |-> FALSE, ids |-> ids, emitted |-> <<UpMetric(0)>>]

\* main.go:261-292; st is what e.status() returned
Collect(st, ids) ==
    IF st.err # NilError
    THEN CollectFailed(ids)
    ELSE SuperGroupLoop(st.info, 1, ids, PoolMetrics(st.info))

\* What e.status() returns (main.go:294-325) for each way the status command
\* can end.
StatusReturn(fetch, t) ==
    CASE fetch.kind = "start_failed" -> [info |-> NoInfo, err |-> StartError]
      [] fetch.kind = "timed_out"    -> [info |-> NoInfo, err |-> TimeoutError(t)]
      [] fetch.kind = "exit_nonzero" -> [info |-> NoInfo, err |-> ExitError]
      [] fetch.kind = "exit_zero"    -> parseOutput(fetch.out)

Fetches ==
    {[kind |-> k, out |-> Document(FALSE, NoInfo, {})] :
        k \in {"start_failed", "timed_out", "exit_nonzero"}}
    \cup {[kind |-> "exit_zero", out |-> d] : d \in Documents}

\* passenger.command.timeout-seconds: the test's millisecond and the default
Timeouts == {1, 5000}

NoFetch == [kind |-> "none", out |-> Document(FALSE, NoInfo, {})]

NoDocument == Document(FALSE, NoInfo, {})

NoReturn == [info |-> NoInfo, err |-> NilError]

\* No call of status() is under way.
StQuiet ==
    /\ cpc = "off"
    /\ cmdProcess = "none"
    /\ exitCode = 0
    /\ stdout = NoDocument
    /\ spawned = 0
    /\ waiter = "none"
    /\ waitErr = NilError
    /\ timer = "none"
    /\ done = <<>>
    /\ selCase = "none"
    /\ readyAtSelect = {}
    /\ recvErr = NilError
    /\ killRes = "none"
    /\ ret = NoReturn
    /\ firedBeforeExit = FALSE
    /\ exitedBeforeFire = FALSE

UpdQuiet ==
    /\ old = EmptyMap
    /\ processes = <<>>
    /\ maxProcesses = 0
    /\ upc = "off"
    /\ output = NoResult
    /\ newOutput = NoResult

ColQuiet ==
    /\ processIdentifiers = EmptyMap
    /\ phase = "off"
    /\ lastFetch = NoFetch
    /\ emitted = <<>>

\* A call of Collect before it has done anything: its locals info, the
\* index k of the supergroup it is at, the map arg it read as the argument
\* of updateProcesses, the index i of the process it is at, and what it sent.
PollAt(pc) ==
    [pc |-> pc, info |-> NoInfo, k |-> 0, arg |-> EmptyMap, i |-> 0, sent |-> <<>>]

\* No scrape is served at the same time as another.
ConQuiet == polls = [p \in 1..NumPollers |-> PollAt("off")]

\* Nothing is kept of earlier calls and polls.
HistQuiet ==
    /\ prevCutOff = {}
    /\ prevLabels = EmptyMap
    /\ prevCap = 0
    /\ idsBefore = EmptyMap
    /\ failedSince = FALSE

\* No map is held through a reference.
NoRef == "none"
HeapQuiet ==
    /\ heap = EmptyMap
    /\ argRef = NoRef
    /\ retRef = NoRef
    /\ heapBefore = EmptyMap

\* main.go:136 and NewExporter, main.go:168-174
ColInit ==
    /\ timeout \in Timeouts
    /\ processIdentifiers = EmptyMap
    /\ phase = "idle"
    /\ lastFetch = NoFetch
    /\ emitted = <<>>
    /\ UpdQuiet
    /\ StQuiet
    /\ ConQuiet
    /\ HistQuiet
    /\ HeapQuiet

\* The registry starts a poll: Collect is handed a fresh channel.
Scrape ==
    /\ phase = "idle"
    /\ phase' = "scraping"
    /\ emitted' = <<>>
    /\ lastFetch' = NoFetch
    /\ UNCHANGED <<processIdentifiers, updVars, timeout, heapVars, conVars, histVars, stVars>>

\* One call of Exporter.Collect.  A panic ends the exporter.
CollectPoll ==
    /\ phase = "scraping"
    /\ \E fetch \in Fetches :
          LET st == StatusReturn(fetch, timeout)
              r  == Collect(st, processIdentifiers)
          IN  /\ lastFetch' = fetch
              /\ processIdentifiers' = r.ids
              /\ emitted' = r.emitted
              /\ phase' = IF r.panic THEN "crashed" ELSE "idle"
    /\ UNCHANGED <<updVars, timeout, heapVars, conVars, histVars, stVars>>

ColNext == Scrape \/ CollectPoll

SpecCollect == ColInit /\ [][ColNext]_vars

(***************************************************************************)
(* Properties of the poll (checked under SpecCollect).                     *)
(***************************************************************************)
\* A poll has run and ended, by returning or by a panic.
PollEnded == phase \in {"idle", "crashed"} /\ lastFetch.kind # "none"

\* The status command of the last poll failed, or its output did not parse.
FetchFailed ==
    \/ lastFetch.kind \in {"start_failed", "timed_out", "exit_nonzero"}
    \/ lastFetch.kind = "exit_zero" /\ ~lastFetch.out.wellFormed

\* The snapshot the output of the last poll decodes to.
LastInfo == parseOutput(lastFetch.out).info

\* How many metrics of this name were sent.
CountNamed(name) ==
    Cardinality({i \in DOMAIN emitted : emitted[i].name = name})

\* How many metrics of this name, labelled with this group, were sent.
CountOfGroup(name, sgName) ==
    Cardinality({i \in DOMAIN emitted :
                    /\ emitted[i].name = name
                    /\ Len(emitted[i].labels) >= 1
                    /\ emitted[i].labels[1] = sgName})

PoolNames ==
    {"passenger_version", "passenger_top_level_request_queue",
     "passenger_max_processes", "passenger_current_processes",
     "passenger_app_group_count"}
GroupMetricNames == {"passenger_app_request_queue", "passenger_app_procs_spawning"}
SlotMetricNames ==
    {"passenger_proc_memory", "passenger_requests_processed_total",
     "passenger_proc_start_time_seconds"}

OnlyFailureEmitted == emitted = <<UpMetric(0)>>

\* availability 1 and every pool-wide, per-group and per-slot measurement of
\* the snapshot (a group's processes count up to the max pool size).
AllOfSnapshotEmitted ==
    LET info == LastInfo IN
    /\ Len(emitted) >= 1 /\ emitted[1] = UpMetric(1)
    /\ CountNamed("passenger_up") = 1
    /\ \A n \in PoolNames : CountNamed(n) = 1
    /\ \A k \in 1..Len(info.SuperGroups) :
          LET sg == info.SuperGroups[k] IN
          /\ \A n \in GroupMetricNames : CountOfGroup(n, sg.Name) = 1
          /\ \A n \in SlotMetricNames :
                CountOfGroup(n, sg.Name)
                    = Min(Len(sg.Group.Processes), info.MaxProcessCount)

\* C6: when the status command cannot be started, exits non-zero or times
\* out, or its output does not parse, the poll emits exactly one measurement,
\* availability 0.
C6_FailurePath == (PollEnded /\ FetchFailed) => OnlyFailureEmitted

\* C6 witness: a poll of an exporter that already holds identifiers timed out.
C6_Witness ==
    /\ PollEnded /\ lastFetch.kind = "timed_out"
    /\ processIdentifiers # EmptyMap
    /\ Len(emitted) = 1

\* C7: every poll ends either with only availability 0 emitted, or with
\* availability 1 and the complete set of measurements of the snapshot.
C7_NoPartialSuccess == PollEnded => (OnlyFailureEmitted \/ AllOfSnapshotEmitted)

\* Every poll that returns has emitted one of the two complete outcomes.
ReturnedPollsComplete ==
    (PollEnded /\ phase = "idle") => (OnlyFailureEmitted \/ AllOfSnapshotEmitted)

UpdInit ==
    /\ old \in PrevMaps
    /\ processes \in {ProcessList(s) : s \in PidLists}
    /\ maxProcesses \in Capacities
    /\ upc = "input"
    /\ output = NoResult
    /\ newOutput = NoResult
    /\ ColQuiet
    /\ timeout = 0
    /\ StQuiet
    /\ ConQuiet
    /\ HistQuiet
    /\ HeapQuiet

\* main.go:596, s.output = updateProcesses(s.input, s.processes, s.maxProcesses)
CallUpdate ==
    /\ upc = "input"
    /\ output' = updateProcesses(old, processes, maxProcesses)
    /\ upc' = "called"
    /\ UNCHANGED <<old, processes, maxProcesses, newOutput, colVars, timeout, heapVars, conVars, histVars, stVars>>

\* main.go:697, newOutput := updateProcesses(spec.output, spec.processes, ...)
CallAgain ==
    /\ upc = "called"
    /\ ~output.panic
    /\ newOutput' = updateProcesses(output.updated, processes, maxProcesses)
    /\ upc' = "again"
    /\ UNCHANGED <<old, processes, maxProcesses, output, colVars, timeout, heapVars, conVars, histVars, stVars>>

UpdNext == CallUpdate \/ CallAgain

SpecUpd == UpdInit /\ [][UpdNext]_vars

(***************************************************************************)
(* Exporter.status, src/main.go:294-325: the caller, the goroutine that    *)
(* waits for the command, the timer of time.After and the command itself.  *)
(***************************************************************************)
\* A slip in line 306: the channel is made without a buffer.
DoneCapUnbuffered == 1 - 1

\* make(chan error, 1)
DoneCap == 1

\* What the command can write before it exits with status 0.
StatusDocuments ==
    {NoDocument,
     Document(TRUE, MakeInfo(1, [p \in Pids |-> IF p = PidNames[1] THEN 1 ELSE 0], 1),
              {})}

\* The error cmd.Wait returns for an exit status.
WaitResult(code) == IF code = 0 THEN NilError ELSE ExitError

\* A slip in lines 319-321: the command's failure is not looked at.
AfterDoneIgnoresFailure(err, doc) == parseOutput(doc)

\* main.go:318-324, what status() returns once err was received from done
AfterDone(err, doc) ==
    IF err # NilError THEN [info |-> NoInfo, err |-> err] ELSE parseOutput(doc)

\* A slip in line 313: the process is left alone.
ProcessKillForgotten(p) == [state |-> p, res |-> "ok"]

\* cmd.Process.Kill() of line 313 on a process in state p: a running process
\* dies, an exited one that was not waited for is signalled in vain, and one
\* that was waited for gives "process already finished".
ProcessKill(p) ==
    CASE p = "running" -> [state |-> "exited", res |-> "ok"]
      [] p = "exited"  -> [state |-> "exited", res |-> "ok"]
      [] p = "reaped"  -> [state |-> "reaped", res |-> "failed"]

\* The cases of the select of line 311 that can proceed.
ReadyCases ==
    (IF timer = "fired" THEN {"timeout"} ELSE {})
    \cup (IF done # <<>> THEN {"done"} ELSE {})

StInit ==
    /\ timeout \in Timeouts
    /\ cpc = "start"
    /\ cmdProcess = "none"
    /\ exitCode = 0
    /\ stdout = NoDocument
    /\ spawned = 0
    /\ waiter = "none"
    /\ waitErr = NilError
    /\ timer = "none"
    /\ done = <<>>
    /\ selCase = "none"
    /\ readyAtSelect = {}
    /\ recvErr = NilError
    /\ killRes = "none"
    /\ ret = NoReturn
    /\ firedBeforeExit = FALSE
    /\ exitedBeforeFire = FALSE
    /\ UpdQuiet
    /\ ColQuiet
    /\ ConQuiet
    /\ HistQuiet
    /\ HeapQuiet

\* main.go:301-304, cmd.Start()
CmdStart ==
    /\ cpc = "start"
    /\ \/ /\ cmdProcess' = "running"
          /\ spawned' = spawned + 1
          /\ cpc' = "go"
          /\ ret' = ret
       \/ /\ ret' = [info |-> NoInfo, err |-> StartError]
          /\ cpc' = "returned"
          /\ UNCHANGED <<cmdProcess, spawned>>
    /\ UNCHANGED <<exitCode, stdout, waiter, waitErr, timer, done, selCase,
                   readyAtSelect, recvErr, killRes, firedBeforeExit,
                   exitedBeforeFire, timeout, heapVars, conVars, histVars, updVars, colVars>>

\* main.go:306-309, the channel is made and the goroutine started
GoWaiter ==
    /\ cpc = "go"
    /\ waiter' = "waiting"
    /\ done' = <<>>
    /\ cpc' = "after"
    /\ UNCHANGED <<cmdProcess, exitCode, stdout, spawned, waitErr, timer,
                   selCase, readyAtSelect, recvErr, killRes, ret,
                   firedBeforeExit, exitedBeforeFire, timeout, heapVars, conVars, histVars, updVars, colVars>>

\* main.go:312, time.After(e.timeout) is evaluated on entering the select
TimeAfter ==
    /\ cpc = "after"
    /\ timer' = "armed"
    /\ cpc' = "select"
    /\ UNCHANGED <<cmdProcess, exitCode, stdout, spawned, waiter, waitErr, done,
                   selCase, readyAtSelect, recvErr, killRes, ret,
                   firedBeforeExit, exitedBeforeFire, timeout, heapVars, conVars, histVars, updVars, colVars>>

\* main.go:311, the select looks at its channels: it takes one of the cases
\* that can proceed, and blocks when none can
SelectPoll ==
    /\ cpc = "select"
    /\ \/ /\ ReadyCases = {}
          /\ cpc' = "parked"
          /\ UNCHANGED <<timer, done, selCase, readyAtSelect, recvErr>>
       \/ /\ "timeout" \in ReadyCases
          /\ timer' = "read"
          /\ selCase' = "timeout"
          /\ readyAtSelect' = ReadyCases
          /\ cpc' = "kill"
          /\ UNCHANGED <<done, recvErr>>
       \/ /\ "done" \in ReadyCases
          /\ recvErr' = Head(done)
          /\ done' = Tail(done)
          /\ selCase' = "done"
          /\ readyAtSelect' = ReadyCases
          /\ cpc' = "recv"
          /\ UNCHANGED timer
    /\ UNCHANGED <<cmdProcess, exitCode, stdout, spawned, waiter, waitErr,
                   killRes, ret, firedBeforeExit, exitedBeforeFire, timeout, heapVars, conVars, histVars,
                   updVars, colVars>>

\* The timeout elapses: the timer sends on its channel, which wakes a caller
\* blocked in the select with the timeout case.
TimerFire ==
    /\ timer = "armed"
    /\ firedBeforeExit' = (cmdProcess = "running")
    /\ IF cpc = "parked"
       THEN /\ timer' = "read"
            /\ selCase' = "timeout"
            /\ readyAtSelect' = {"timeout"}
            /\ cpc' = "kill"
       ELSE /\ timer' = "fired"
            /\ UNCHANGED <<selCase, readyAtSelect, cpc>>
    /\ UNCHANGED <<cmdProcess, exitCode, stdout, spawned, waiter, waitErr, done,
                   recvErr, killRes, ret, exitedBeforeFire, timeout, heapVars, conVars, histVars, updVars,
                   colVars>>

\* The status command exits by itself, having written its output.
ProcExit ==
    /\ cmdProcess = "running"
    /\ \E code \in {0, 1} :
          /\ exitCode' = code
          /\ stdout' \in IF code = 0 THEN StatusDocuments ELSE {NoDocument}
    /\ cmdProcess' = "exited"
    /\ exitedBeforeFire' = (timer \in {"none", "armed"})
    /\ UNCHANGED <<cpc, spawned, waiter, waitErr, timer, done, selCase,
                   readyAtSelect, recvErr, killRes, ret, firedBeforeExit,
                   timeout, heapVars, conVars, histVars, updVars, colVars>>

\* main.go:308, cmd.Wait() returns once the command has exited
WaitReturns ==
    /\ waiter = "waiting"
    /\ cmdProcess = "exited"
    /\ cmdProcess' = "reaped"
    /\ waitErr' = WaitResult(exitCode)
    /\ waiter' = "sending"
    /\ UNCHANGED <<cpc, exitCode, stdout, spawned, timer, done, selCase,
                   readyAtSelect, recvErr, killRes, ret, firedBeforeExit,
                   exitedBeforeFire, timeout, heapVars, conVars, histVars, updVars, colVars>>

\* main.go:308, done <- err: handed to a caller blocked in the select, or put
\* into the buffer when it has room; the send blocks otherwise
WaiterSend ==
    /\ waiter = "sending"
    /\ IF cpc = "parked"
       THEN /\ recvErr' = waitErr
            /\ selCase' = "done"
            /\ readyAtSelect' = {"done"}
            /\ cpc' = "recv"
            /\ UNCHANGED done
       ELSE /\ Len(done) < DoneCap
            /\ done' = Append(done, waitErr)
            /\ UNCHANGED <<recvErr, selCase, readyAtSelect, cpc>>
    /\ waiter' = "finished"
    /\ UNCHANGED <<cmdProcess, exitCode, stdout, spawned, waitErr, timer,
                   killRes, ret, firedBeforeExit, exitedBeforeFire, timeout, heapVars, conVars, histVars,
                   updVars, colVars>>

\* main.go:313-315, the timeout case kills the command
Kill ==
    /\ cpc = "kill"
    /\ LET k == ProcessKill(cmdProcess) IN
          /\ cmdProcess' = k.state
          /\ killRes' = k.res
          /\ exitCode' = IF cmdProcess = "running" /\ k.state = "exited"
                         THEN 9 ELSE exitCode
    /\ cpc' = "timedout"
    /\ UNCHANGED <<stdout, spawned, waiter, waitErr, timer, done, selCase,
                   readyAtSelect, recvErr, ret, firedBeforeExit,
                   exitedBeforeFire, timeout, heapVars, conVars, histVars, updVars, colVars>>

\* main.go:316-317
ReturnTimeout ==
    /\ cpc = "timedout"
    /\ ret' = [info |-> NoInfo, err |-> TimeoutError(timeout)]
    /\ cpc' = "returned"
    /\ UNCHANGED <<cmdProcess, exitCode, stdout, spawned, waiter, waitErr, timer,
                   done, selCase, readyAtSelect, recvErr, killRes,
                   firedBeforeExit, exitedBeforeFire, timeout, heapVars, conVars, histVars, updVars, colVars>>

\* main.go:318-324, the done case
ReturnDone ==
    /\ cpc = "recv"
    /\ ret' = AfterDone(recvErr, stdout)
    /\ cpc' = "returned"
    /\ UNCHANGED <<cmdProcess, exitCode, stdout, spawned, waiter, waitErr, timer,
                   done, selCase, readyAtSelect, recvErr, killRes,
                   firedBeforeExit, exitedBeforeFire, timeout, heapVars, conVars, histVars, updVars, colVars>>

CallerStep ==
    CmdStart \/ GoWaiter \/ TimeAfter \/ SelectPoll \/ Kill \/ ReturnTimeout
        \/ ReturnDone

WaiterStep == WaitReturns \/ WaiterSend

StNext == CallerStep \/ WaiterStep \/ TimerFire \/ ProcExit

SpecStatus == StInit /\ [][StNext]_vars

\* The scheduler runs every goroutine that can run and the timer fires; the
\* command itself need not ever exit.
SpecStatusFair ==
    /\ StInit /\ [][StNext]_vars
    /\ WF_vars(CallerStep) /\ WF_vars(WaiterStep) /\ WF_vars(TimerFire)

(***************************************************************************)
(* Properties of status() (checked under SpecStatus and SpecStatusFair).   *)
(***************************************************************************)
Returned == cpc = "returned"

TimedOutReturn == [info |-> NoInfo, err |-> TimeoutError(timeout)]

\* What the command's own exit calls for: its parsed output on a zero exit,
\* its failure otherwise.
CompletionReturn ==
    IF exitCode = 0 THEN parseOutput(stdout) ELSE [info |-> NoInfo, err |-> ExitError]

\* How the call ended, in the terms the poll's model of status() uses.
FetchKind ==
    CASE spawned = 0          -> "start_failed"
      [] selCase = "timeout"  -> "timed_out"
      [] exitCode = 0         -> "exit_zero"
      [] OTHER                -> "exit_nonzero"

\* Every return of status() is the one StatusReturn gives the poll.
StatusReturnsAgree ==
    Returned => ret = StatusReturn([kind |-> FetchKind, out |-> stdout], timeout)

\* C8 as claimed: when the timer fires before the command has completed,
\* status() kills it and returns the error of the configured timeout, and no
\* snapshot.
C8_TimeoutWhenFiredFirst ==
    (Returned /\ firedBeforeExit) =>
        /\ ret = TimedOutReturn
        /\ killRes # "none"

\* C8 amended: when the select decides with the timer fired and no result on
\* done (as whenever the timer fires on a caller blocked in the select), it
\* takes the timeout case; status() then kills the command, so that it no
\* longer runs, and returns the error of the configured timeout and no
\* snapshot; and the caller is never blocked in the select once the timer has
\* fired.
C8_TimeoutCase ==
    /\ readyAtSelect = {"timeout"} => selCase = "timeout"
    /\ (selCase = "timeout" /\ Returned) =>
          /\ ret = TimedOutReturn
          /\ killRes # "none"
          /\ cmdProcess \in {"exited", "reaped"}
    /\ cpc = "parked" => (timer = "armed" /\ done = <<>>)

\* C8 witness: the timer fired on the blocked caller while the command ran;
\* status() has returned the timed-out error and the killed command has not
\* been waited for yet.
C8_Witness ==
    /\ Returned /\ firedBeforeExit /\ readyAtSelect = {"timeout"}
    /\ ret = TimedOutReturn /\ timeout = 5000
    /\ exitCode = 9 /\ cmdProcess = "exited" /\ waiter = "waiting"

\* C9 as claimed: if the command exits before the timeout elapses, status()
\* returns its parsed output or its failure, never the timed-out error.
C9_CompletionWhenExitedFirst ==
    (Returned /\ exitedBeforeFire) => ret = CompletionReturn

\* C9 amended: if the result of cmd.Wait is on the done channel and the timer
\* has not fired when the select decides, the select takes the done case;
\* whenever it takes the done case status() returns the parsed output on a
\* zero exit and the command's failure on a non-zero exit; and the timed-out
\* error is returned only if the timer had fired when the select decided.
C9_CompletionCase ==
    /\ readyAtSelect = {"done"} => selCase = "done"
    /\ (selCase = "done" /\ Returned) =>
          /\ ret = CompletionReturn
          /\ exitCode \in {0, 1}
          /\ killRes = "none"
    /\ (Returned /\ ret.err.kind = "timeout") => "timeout" \in readyAtSelect

\* C9 witness: the command exited with status 0 before the timeout, its
\* result was taken from done, and status() returned the parsed snapshot.
C9_Witness ==
    /\ Returned /\ exitedBeforeFire /\ selCase = "done"
    /\ exitCode = 0 /\ stdout.wellFormed
    /\ ret = [info |-> stdout.info, err |-> NilError]

\* C10: a call of status() starts at most one process, and a started process
\* is in the end terminated and waited for and the waiting goroutine
\* finishes, whether the caller took the timeout case or the done case.
C10_Reaping ==
    /\ [](spawned <= 1)
    /\ (cmdProcess = "running") ~> (cmdProcess = "reaped" /\ waiter = "finished")

\* C10 witness: the caller returned on timeout, and afterwards the killed
\* command was waited for and the goroutine left its result in the buffer.
C10_Witness ==
    /\ Returned /\ selCase = "timeout" /\ exitCode = 9
    /\ cmdProcess = "reaped" /\ waiter = "finished" /\ Len(done) = 1

(***************************************************************************)
(* Properties of updateProcesses (checked under SpecUpd).                  *)
(***************************************************************************)
\* The pids of the input after the truncation of lines 356-358.
TruncatedPids == PidsOf(Truncate(processes, maxProcesses))

\* Pids of the truncated input that the previous map knows.
RetainedPids == TruncatedPids \cap DOMAIN old

\* The pids of the truncated input the previous map does not know, in order.
NewPids ==
    LET cut == Truncate(processes, maxProcesses)
        ps  == [i \in DOMAIN cut |-> cut[i].PID]
    IN  SelectSeq(ps, LAMBDA p : p \notin DOMAIN old)

\* Slot indexes of [0, capacity) no retained pid holds.
FreeSlots == (0..(maxProcesses - 1)) \ {old[p] : p \in RetainedPids}

KthLowest(S, k) == CHOOSE x \in S : Cardinality({y \in S : y < x}) = k - 1

\* Every retained pid holds a slot of [0, capacity).
RetainedInRange == \A p \in RetainedPids : old[p] \in 0..(maxProcesses - 1)

\* The previous map is an IdentityMap of this capacity (spec section 3).
IsIdentityMap == Range(old) \subseteq 0..(maxProcesses - 1)

\* C1: for any previous map, process list and capacity, updateProcesses
\* returns a map with exactly min(|P|, capacity) entries, whose keys are the
\* pids of the first min(|P|, capacity) processes.
C1_SlotCardinality ==
    upc # "input" =>
        /\ ~output.panic
        /\ DOMAIN output.updated = TruncatedPids
        /\ Cardinality(DOMAIN output.updated) = Min(Len(processes), maxProcesses)

ScenarioBOld == [abc |-> 0, cdf |-> 1, dfe |-> 2, efg |-> 3]
ScenarioBProcesses == ProcessList(<<"abc", "dfe", "newPID", "newPID2">>)
ScenarioBOutput == [abc |-> 0, dfe |-> 2, newPID |-> 1, newPID2 |-> 3]

\* C4: the k-th pid of the truncated input that the previous map does not
\* know gets the k-th lowest slot of [0, capacity) no retained pid holds
\* (retained slots lying in [0, capacity)); scenario B of the spec is one case.
C4_NewPidPlacement ==
    /\ (upc # "input" /\ RetainedInRange) =>
          /\ ~output.panic
          /\ Cardinality(FreeSlots) >= Len(NewPids)
          /\ \A k \in 1..Len(NewPids) :
                /\ NewPids[k] \in DOMAIN output.updated
                /\ output.updated[NewPids[k]] = KthLowest(FreeSlots, k)
    /\ upc = "called" =>
          updateProcesses(ScenarioBOld, ScenarioBProcesses, 6)
              = [panic |-> FALSE, updated |-> ScenarioBOutput]

\* C4 witness: two new pids are placed around a retained pid, the second new
\* pid above the retained slot and the first below it.
C4_Witness ==
    /\ upc = "called" /\ ~output.panic /\ Len(NewPids) >= 2
    /\ \E p \in RetainedPids :
          /\ output.updated[NewPids[1]] < old[p]
          /\ old[p] < output.updated[NewPids[2]]

\* C5: updateProcesses never aborts with an index out of range, whatever the
\* previous map holds.
C5_NeverOutOfBounds == upc # "input" => ~output.panic

(***************************************************************************)
(* Scrapes served at the same time.  promhttp.HandlerFor (main.go:440) is  *)
(* given no limit of requests in flight, so that each scrape runs its own  *)
(* call of Exporter.Collect, all on the package-level processIdentifiers   *)
(* of main.go:136.  A step is one access to that variable.                 *)
(***************************************************************************)
Pollers == 1..NumPollers

\* What the status command reports to such scrapes: the pool at its
\* configured size, or a failure.
ConcFetches ==
    {[kind |-> "timed_out", out |-> NoDocument]}
    \cup {[kind |-> "exit_zero",
           out |-> Document(TRUE, MakeInfo(ng, where, MaxCap), {})] :
             ng \in 1..Len(GroupNames), where \in [Pids -> 0..1]}

ConInit ==
    /\ timeout \in Timeouts
    /\ polls = [p \in Pollers |-> PollAt("idle")]
    /\ ColQuiet
    /\ UpdQuiet
    /\ StQuiet
    /\ HistQuiet
    /\ HeapQuiet

\* A panic in one call of Collect ends the exporter and every scrape with it.
Running == \A q \in Pollers : polls[q].pc # "crashed"

\* main.go:262-274: e.status(), then the failure indicator and the return,
\* or the pool-wide metrics
PollStatus(p) ==
    /\ Running
    /\ polls[p].pc = "idle"
    /\ \E fetch \in ConcFetches :
          LET st == StatusReturn(fetch, timeout) IN
          polls' = [polls EXCEPT ![p] =
                      IF st.err # NilError
                      THEN [@ EXCEPT !.pc = "returned",
                                     !.sent = CollectFailed(processIdentifiers).emitted]
                      ELSE [@ EXCEPT !.pc = "group", !.info = st.info, !.k = 1,
                                     !.sent = PoolMetrics(st.info)]]
    /\ UNCHANGED <<updVars, colVars, timeout, heapVars, stVars, histVars>>

\* main.go:276-281: the next supergroup, its two metrics, and the read of
\* processIdentifiers as the argument of updateProcesses; or the return
PollGroup(p) ==
    /\ Running
    /\ polls[p].pc = "group"
    /\ polls' = [polls EXCEPT ![p] =
                   IF @.k > Len(@.info.SuperGroups)
                   THEN [@ EXCEPT !.pc = "returned"]
                   ELSE [@ EXCEPT !.pc = "update",
                                  !.arg = processIdentifiers,
                                  !.sent = @ \o GroupMetrics(polls[p].info.SuperGroups[polls[p].k])]]
    /\ UNCHANGED <<updVars, colVars, timeout, heapVars, stVars, histVars>>

\* main.go:281: updateProcesses runs on the map that was read, and its
\* result is stored in processIdentifiers
PollUpdate(p) ==
    /\ Running
    /\ polls[p].pc = "update"
    /\ LET me  == polls[p]
           upd == updateProcesses(me.arg, me.info.SuperGroups[me.k].Group.Processes,
                                  me.info.MaxProcessCount)
       IN  /\ processIdentifiers' =
                 IF upd.panic THEN processIdentifiers ELSE upd.updated
           /\ polls' = [polls EXCEPT ![p] =
                          IF upd.panic
                          THEN [@ EXCEPT !.pc = "crashed"]
                          ELSE [@ EXCEPT !.pc = "lookup", !.i = 1]]
    /\ UNCHANGED <<updVars, phase, lastFetch, emitted, timeout, heapVars, stVars, histVars>>

\* main.go:282-290: one turn of the loop over the processes, with its
\* lookup in processIdentifiers; or the end of the loop
PollLookup(p) ==
    /\ Running
    /\ polls[p].pc = "lookup"
    /\ LET me    == polls[p]
           sg    == me.info.SuperGroups[me.k]
           procs == sg.Group.Processes
       IN  polls' = [polls EXCEPT ![p] =
                       IF me.i > Len(procs)
                       THEN [@ EXCEPT !.pc = "group", !.k = @ + 1]
                       ELSE [@ EXCEPT !.i = @ + 1,
                                      !.sent =
                                         IF procs[me.i].PID \in DOMAIN processIdentifiers
                                         THEN @ \o ProcessMetrics(sg.Name, procs[me.i],
                                                      processIdentifiers[procs[me.i].PID])
                                         ELSE @]]
    /\ UNCHANGED <<updVars, colVars, timeout, heapVars, stVars, histVars>>

ConNext ==
    \E p \in Pollers :
        PollStatus(p) \/ PollGroup(p) \/ PollUpdate(p) \/ PollLookup(p)

SpecConc == ConInit /\ [][ConNext]_vars

(***************************************************************************)
(* Properties of scrapes served at the same time (checked under SpecConc). *)
(***************************************************************************)
\* The poll has read processIdentifiers for its update and has not yet made
\* the last lookup of the emission that follows it.
InSequence(p) == polls[p].pc \in {"update", "lookup"}

\* C11: the update-and-emit sequences of polls that run at the same time are
\* serialized: while one poll is between its read of the shared map and the
\* last lookup of its emission, no other poll reads or writes the map.
C11_SingleWriter ==
    \A p, q \in Pollers : (InSequence(p) /\ InSequence(q)) => p = q

\* What serialized polls would give: a poll of a one-group snapshot that
\* returns has sent what a poll running alone sends from the map it read.
PollsEmitAsAlone ==
    \A p \in Pollers :
        (polls[p].pc = "returned" /\ Len(polls[p].info.SuperGroups) = 1) =>
            polls[p].sent
                = Collect([info |-> polls[p].info, err |-> NilError], polls[p].arg).emitted

(***************************************************************************)
(* Properties of the map a poll leaves (checked under SpecCollect).        *)
(***************************************************************************)
\* The last poll took the success path and returned.
PollSucceeded == PollEnded /\ phase = "idle" /\ emitted # <<UpMetric(0)>>

\* The processes of all groups of a snapshot together, in the order of the
\* groups.
RECURSIVE Flattened(_, _)
Flattened(info, k) ==
    IF k > Len(info.SuperGroups) THEN <<>>
    ELSE info.SuperGroups[k].Group.Processes \o Flattened(info, k + 1)

\* C12: at the end of a successful poll processIdentifiers holds exactly one
\* entry for every process of the snapshot's flattened process list, up to
\* the max pool size, whatever the number of groups.
C12_WholeSnapshotMapped ==
    PollSucceeded =>
        DOMAIN processIdentifiers
            = PidsOf(Truncate(Flattened(LastInfo, 1), LastInfo.MaxProcessCount))

\* The same for snapshots of exactly one group, where the flattened list is
\* the list of the group.
OneGroupSnapshotMapped ==
    (PollSucceeded /\ Len(LastInfo.SuperGroups) = 1) =>
        DOMAIN processIdentifiers
            = PidsOf(Truncate(Flattened(LastInfo, 1), LastInfo.MaxProcessCount))

\* C18: a poll whose status output is not well-formed, or lacks the max pool
\* size or the process list of a group, takes the failure path.
C18_ParseStrictness ==
    (PollEnded /\ lastFetch.kind = "exit_zero"
        /\ (~lastFetch.out.wellFormed \/ lastFetch.out.lacks # {})) =>
            /\ parseOutput(lastFetch.out).err # NilError
            /\ OnlyFailureEmitted

\* Output that is not well-formed is refused.
MalformedRefused ==
    (PollEnded /\ lastFetch.kind = "exit_zero" /\ ~lastFetch.out.wellFormed) =>
        OnlyFailureEmitted

\* C19: no sequence of polls from the empty map, whatever max pool size and
\* process count each snapshot carries, ends Collect with an index out of
\* range.
C19_NoPollCrashes == phase # "crashed"

(***************************************************************************)
(* Polls one after the other, with a record of what the last successful    *)
(* poll emitted.                                                           *)
(***************************************************************************)
\* The pids whose resident memory was sent (a process of the model is told
\* by its figures).
EmittedPids(sent) ==
    {p \in Pids : \E i \in DOMAIN sent :
        /\ sent[i].name = "passenger_proc_memory"
        /\ sent[i].value = Process(p).RealMemory}

\* pid -> <<group name, slot label>> of the per-slot measurements sent.
LabelsOf(sent) ==
    [p \in EmittedPids(sent) |->
        sent[CHOOSE i \in DOMAIN sent :
                /\ sent[i].name = "passenger_proc_memory"
                /\ sent[i].value = Process(p).RealMemory].labels]

\* The registry starts the next poll; what the poll before it emitted is
\* kept if it took the success path.
TriggerPoll ==
    /\ phase = "idle"
    /\ phase' = "scraping"
    /\ emitted' = <<>>
    /\ lastFetch' = NoFetch
    /\ idsBefore' = processIdentifiers
    /\ IF lastFetch.kind = "none"
       THEN UNCHANGED <<prevLabels, prevCap, failedSince>>
       ELSE IF emitted = <<UpMetric(0)>>
            THEN failedSince' = TRUE /\ UNCHANGED <<prevLabels, prevCap>>
            ELSE /\ prevLabels' = LabelsOf(emitted)
                 /\ prevCap' = parseOutput(lastFetch.out).info.MaxProcessCount
                 /\ failedSince' = FALSE
    /\ UNCHANGED <<processIdentifiers, prevCutOff, updVars, timeout, heapVars, stVars,
                   conVars>>

PollsNext == TriggerPoll \/ CollectPoll

SpecPolls == ColInit /\ [][PollsNext]_vars

(***************************************************************************)
(* Properties of consecutive polls (checked under SpecPolls).              *)
(***************************************************************************)
\* The pids of the last snapshot that are among the first max-pool-size
\* processes of their group.
WithinCapacity(sgName) ==
    UNION {PidsOf(Truncate(LastInfo.SuperGroups[k].Group.Processes,
                           LastInfo.MaxProcessCount)) :
             k \in {j \in DOMAIN LastInfo.SuperGroups :
                        LastInfo.SuperGroups[j].Name = sgName}}

\* Every process that the last successful poll emitted and that is within
\* the capacity of the same group in this poll is emitted under the same slot
\* label.
SlotsKept ==
    \A p \in DOMAIN prevLabels :
        p \in WithinCapacity(prevLabels[p][1]) =>
            /\ p \in EmittedPids(emitted)
            /\ LabelsOf(emitted)[p] = prevLabels[p]

\* C13: in two consecutive successful polls with the same max pool size, a
\* process that is live and within the capacity in both is emitted under the
\* same slot label, with one group or several.
C13_CrossPollStability ==
    (PollSucceeded /\ ~failedSince /\ prevCap = LastInfo.MaxProcessCount) => SlotsKept

\* When the poll began, processIdentifiers held every process the last
\* successful poll emitted, with the slot it was emitted under.
MapHeldEmittedSlots ==
    \A p \in DOMAIN prevLabels :
        p \in DOMAIN idsBefore /\ Itoa(idsBefore[p]) = prevLabels[p][2]

\* Slots are kept by a poll of a one-group snapshot that found the emitted
\* slots of the successful poll before it in processIdentifiers.
OneGroupStability ==
    (PollSucceeded /\ MapHeldEmittedSlots /\ Len(LastInfo.SuperGroups) = 1)
        => SlotsKept

\* A poll that takes the failure path leaves processIdentifiers as it was.
FailedPollKeepsMap ==
    (PollEnded /\ emitted = <<UpMetric(0)>>) => processIdentifiers = idsBefore

\* C17: a poll that takes the failure path leaves processIdentifiers
\* unchanged, and a process live in the successful polls before and after
\* failed polls keeps its slot.
C17_FailedPollsKeepIdentity ==
    /\ FailedPollKeepsMap
    /\ (PollSucceeded /\ failedSince) => SlotsKept

(***************************************************************************)
(* The per-process loop of Collect (main.go:282-290) on its own: any map   *)
(* in processIdentifiers, any process list of a group.                     *)
(***************************************************************************)
\* Maps of any shape: slots up to the capacity, shared or not.
AnyMaps == UNION {[D -> 0..MaxCap] : D \in SUBSET Pids}

TrInit ==
    /\ processIdentifiers \in AnyMaps
    /\ processes \in {ProcessList(s) : s \in PidLists}
    /\ phase = "input"
    /\ lastFetch = NoFetch
    /\ emitted = <<>>
    /\ old = EmptyMap
    /\ maxProcesses = 0
    /\ upc = "off"
    /\ output = NoResult
    /\ newOutput = NoResult
    /\ timeout = 0
    /\ StQuiet
    /\ ConQuiet
    /\ HistQuiet
    /\ HeapQuiet

\* main.go:282-290 for the processes of one group
Translate ==
    /\ phase = "input"
    /\ \E sgName \in {GroupNames[k] : k \in DOMAIN GroupNames} :
          emitted' = ProcessLoop(sgName, processes, 1, processIdentifiers, <<>>)
    /\ phase' = "translated"
    /\ UNCHANGED <<processIdentifiers, lastFetch, updVars, timeout, heapVars, stVars,
                   conVars, histVars>>

SpecTranslate == TrInit /\ [][Translate]_vars

\* The processes of the list that have an entry in the map, in order.
Mapped == SelectSeq(processes, LAMBDA proc : proc.PID \in DOMAIN processIdentifiers)

\* C14: the loop emits, for each process with an entry in the map and in
\* the order of the list, the resident memory gauge, the requests-processed
\* counter and the start time gauge, labelled with the group name and the
\* slot of the entry, and nothing else: a process without an entry is passed
\* over and the processes after it are still emitted.
C14_TranslationTotality ==
    phase = "translated" =>
        /\ Len(emitted) = 3 * Len(Mapped)
        /\ \E sgName \in {GroupNames[k] : k \in DOMAIN GroupNames} :
              \A n \in DOMAIN Mapped :
                 LET slot == Itoa(processIdentifiers[Mapped[n].PID])
                     m1 == emitted[3 * n - 2]
                     m2 == emitted[3 * n - 1]
                     m3 == emitted[3 * n]
                 IN  /\ m1.name = "passenger_proc_memory" /\ m1.kind = "gauge"
                     /\ m1.value = Mapped[n].RealMemory
                     /\ m2.name = "passenger_requests_processed_total"
                     /\ m2.kind = "counter"
                     /\ m2.value = Mapped[n].RequestsProcessed
                     /\ m3.name = "passenger_proc_start_time_seconds"
                     /\ m3.kind = "gauge"
                     /\ \A m \in {m1, m2, m3} : m.labels = <<sgName, slot>>

\* C14 witness: the first process of the list has no entry and the one after
\* it has; three measurements were sent.
C14_Witness ==
    /\ phase = "translated" /\ Len(processes) = 2
    /\ processes[1].PID \notin DOMAIN processIdentifiers
    /\ processes[2].PID \in DOMAIN processIdentifiers
    /\ Len(emitted) = 3

(***************************************************************************)
(* updateProcesses called again and again on its own result, as            *)
(* TestProcessSurgeOverMaxProcesses does (main.go:734-769), from the empty *)
(* map of main.go:136 and with one capacity.                               *)
(***************************************************************************)
SeqInit ==
    /\ old = EmptyMap
    /\ processes = <<>>
    /\ maxProcesses \in Capacities
    /\ upc = "seq"
    /\ output = NoResult
    /\ newOutput = NoResult
    /\ ColQuiet
    /\ timeout = 0
    /\ StQuiet
    /\ ConQuiet
    /\ HistQuiet
    /\ HeapQuiet

\* spec = newUpdateProcessSpec(name, spec.output, processes, maxProcesses)
NextUpdate ==
    /\ upc = "seq"
    /\ ~output.panic
    /\ \E s \in PidLists :
          /\ processes' = ProcessList(s)
          /\ output' = updateProcesses(output.updated, ProcessList(s), maxProcesses)
    /\ old' = output.updated
    /\ prevCutOff' = PidsOf(processes) \ PidsOf(Truncate(processes, maxProcesses))
    /\ UNCHANGED <<maxProcesses, upc, newOutput, colVars, timeout, heapVars, stVars, conVars,
                   prevLabels, prevCap, idsBefore, failedSince>>

SpecSeq == SeqInit /\ [][NextUpdate]_vars

(***************************************************************************)
(* Properties of repeated updates (checked under SpecSeq).                 *)
(***************************************************************************)
\* C16: from the empty map, after any number of updates with one capacity
\* and lists of distinct pids of any length, every slot of the map lies in
\* [0, capacity), and no update aborts.
C16_SlotRange ==
    /\ ~output.panic
    /\ Range(output.updated) \subseteq 0..(maxProcesses - 1)
    /\ Cardinality(Range(output.updated)) <= maxProcesses

\* C16 witness: an update with a list longer than the capacity, on a map
\* that held other pids, filled every slot.
C16_Witness ==
    /\ Len(processes) > maxProcesses /\ maxProcesses >= 2
    /\ old # EmptyMap /\ DOMAIN old # DOMAIN output.updated
    /\ Range(output.updated) = 0..(maxProcesses - 1)

\* The pids of the map before the update that are not among the first
\* capacity processes of the list: their slots are free for new pids.
DepartedPids == DOMAIN old \ TruncatedPids

ScenarioCOld == [abc |-> 0, def |-> 1, hij |-> 2]
ScenarioCSurge == ProcessList(<<"abc", "def", "hij", "klm">>)
ScenarioCSettle == ProcessList(<<"abc", "def", "klm">>)

\* C15: in an update with a list longer than the capacity the pids beyond
\* the first capacity elements get no entry and the retained pids keep their
\* slots; in the update after it, a pid that was cut off and is now within
\* the first capacity elements gets a slot a departed pid has freed (scenario
\* C of the spec is one case).
C15_SurgeThenSettle ==
    /\ Len(processes) > maxProcesses =>
          /\ \A p \in PidsOf(processes) \ TruncatedPids :
                p \notin DOMAIN output.updated
          /\ \A p \in RetainedPids :
                p \in DOMAIN output.updated /\ output.updated[p] = old[p]
    /\ \A p \in prevCutOff \cap TruncatedPids :
          /\ p \notin DOMAIN old
          /\ p \in DOMAIN output.updated
          /\ output.updated[p] \in {old[q] : q \in DepartedPids}
    /\ updateProcesses(ScenarioCOld, ScenarioCSurge, 3)
          = [panic |-> FALSE, updated |-> ScenarioCOld]
    /\ updateProcesses(ScenarioCOld, ScenarioCSettle, 3)
          = [panic |-> FALSE, updated |-> [abc |-> 0, def |-> 1, klm |-> 2]]

\* C15 witness: the update before cut a pid off; in this update one pid of
\* the full map has departed, another is retained, and the pid that was cut
\* off holds the slot of the departed one.
C15_Witness ==
    /\ maxProcesses >= 2 /\ RetainedPids # {}
    /\ \E p \in prevCutOff \cap TruncatedPids :
          /\ Cardinality(DepartedPids) = 1
          /\ \E q \in DepartedPids : output.updated[p] = old[q] /\ old[q] > 0

(***************************************************************************)
(* updateProcesses on every previous map with slots below the capacity,    *)
(* whether or not two pids share a slot, and every process list, whether   *)
(* or not it names a pid twice.                                            *)
(***************************************************************************)
\* Maps from some pids to slots of [0, cap).
MapsBelow(cap) == UNION {[D -> 0..(cap - 1)] : D \in SUBSET Pids}

AnyLists == UNION {[1..n -> Pids] : n \in 0..NumPids}

UpdAnyInit ==
    /\ maxProcesses \in Capacities
    /\ old \in MapsBelow(maxProcesses)
    /\ processes \in {ProcessList(s) : s \in AnyLists}
    /\ upc = "input"
    /\ output = NoResult
    /\ newOutput = NoResult
    /\ ColQuiet
    /\ timeout = 0
    /\ StQuiet
    /\ ConQuiet
    /\ HistQuiet
    /\ HeapQuiet

SpecUpdAny == UpdAnyInit /\ [][CallUpdate]_vars

\* C20: for a previous map with all slots in [0, capacity), shared or not,
\* and any process list, no new pid is left unassigned after the scan of the
\* slot array: the branch that assigns slots from capacity on is not taken,
\* the call does not abort and no slot of the result is at or above the
\* capacity.
C20_OverflowUnreachable ==
    /\ ~OverflowTaken(old, processes, maxProcesses)
    /\ upc = "called" =>
          /\ ~output.panic
          /\ Range(output.updated) \subseteq 0..(maxProcesses - 1)

\* C20 witness: two retained pids share a slot of the previous map, the list
\* fills the capacity, and the new pid was placed below the capacity.
C20_Witness ==
    /\ upc = "called" /\ Len(processes) = maxProcesses
    /\ \E p, q \in RetainedPids : p # q /\ old[p] = old[q]
    /\ Len(NewPids) > 0
    /\ \A k \in 1..Len(NewPids) :
          /\ NewPids[k] \in DOMAIN output.updated
          /\ output.updated[NewPids[k]] < maxProcesses

(***************************************************************************)
(* Uniqueness of slots: of the map under SpecSeq (lists in any order, one  *)
(* capacity) and of the map and the labels of a poll under SpecCollect     *)
(* (any number of groups, a max pool size that changes between polls).     *)
(***************************************************************************)
\* Every map updateProcesses returns in a sequence of updates from the empty
\* map gives each pid a slot of its own.
SeqSlotsUnique == Injective(output.updated)

\* No two per-slot measurements of one metric carry the same group name and
\* slot.
LabelsUnique ==
    \A i, j \in DOMAIN emitted :
        (/\ emitted[i].name \in SlotMetricNames
         /\ emitted[i].name = emitted[j].name
         /\ emitted[i].labels = emitted[j].labels) => i = j

\* C21: in every state the polls reach from the empty map no two pids of
\* processIdentifiers share a slot, and within a poll no two per-slot
\* measurements of the same metric carry the same (group name, slot) labels.
C21_SlotUniqueness ==
    /\ Injective(processIdentifiers)
    /\ LabelsUnique

\* C21 witness: a poll of two groups sent per-slot measurements for three
\* processes, slot 0 under both group names, and left a map of two pids.
C21_Witness ==
    /\ PollSucceeded
    /\ CountNamed("passenger_proc_memory") = 3
    /\ \A k \in DOMAIN GroupNames :
          \E i \in DOMAIN emitted :
              /\ emitted[i].name = "passenger_proc_memory"
              /\ emitted[i].labels = <<GroupNames[k], "0">>
    /\ Cardinality(DOMAIN processIdentifiers) = 2

(***************************************************************************)
(* The start time gauge (main.go:286): the per-process loop on one process *)
(* whose spawn_start_time is any of a set of microsecond timestamps.       *)
(***************************************************************************)
\* Timestamps around every whole second up to MaxSeconds, the largest
\* timestamp the model checker's integers hold, and timestamps before the
\* epoch.
StartTimes ==
    {sec * 1000000 + us : sec \in 0..MaxSeconds, us \in {0, 1, 499999, 500000, 999999}}
    \cup {2147483647}
    \cup {-1, -999999, -1000000, -1500000}

StartInit ==
    /\ \E p \in Pids, t \in StartTimes, slot \in 0..MaxCap :
          /\ processes = <<[Process(p) EXCEPT !.SpawnStartTime = t]>>
          /\ processIdentifiers = Put(EmptyMap, p, slot)
    /\ phase = "input"
    /\ lastFetch = NoFetch
    /\ emitted = <<>>
    /\ old = EmptyMap
    /\ maxProcesses = 0
    /\ upc = "off"
    /\ output = NoResult
    /\ newOutput = NoResult
    /\ timeout = 0
    /\ StQuiet
    /\ ConQuiet
    /\ HistQuiet
    /\ HeapQuiet

SpecStart == StartInit /\ [][Translate]_vars

\* The start time gauge sent for the process.
StartTimeSent == emitted[3]

\* C22: for a spawn start time of t >= 0 microseconds the start time gauge
\* has the value of t divided by 1,000,000 without its remainder: a whole
\* number of seconds s with s * 1,000,000 <= t < (s + 1) * 1,000,000.
C22_StartTimeSeconds ==
    (phase = "translated" /\ processes[1].SpawnStartTime >= 0) =>
        /\ Len(emitted) = 3
        /\ StartTimeSent.name = "passenger_proc_start_time_seconds"
        /\ StartTimeSent.value = processes[1].SpawnStartTime \div 1000000
        /\ StartTimeSent.value >= 0
        /\ (processes[1].SpawnStartTime - StartTimeSent.value * 1000000)
              \in 0..999999

\* C22 witness: a process spawned one microsecond before the second second
\* is reported as spawned at second 1.
C22_Witness ==
    /\ phase = "translated"
    /\ processes[1].SpawnStartTime = 1999999
    /\ StartTimeSent.value = 1

(***************************************************************************)
(* updateProcesses on references.  A Go map is a reference: the function   *)
(* receives the caller's map itself, allocates the map it returns with     *)
(* make (main.go:351) and writes only through that reference (main.go:389  *)
(* and 397); the previous map is read with the comma-ok form (main.go:361),*)
(* which inserts nothing.                                                  *)
(***************************************************************************)
Refs == {"m1", "m2", "m3"}

\* A slip in line 351: no allocation, the map is one the caller holds.
MakeMapReuses(h) == CHOOSE r \in Refs : r \in DOMAIN h

\* main.go:351, make(map[string]int, maxProcesses): a reference to no map
\* held before
MakeMap(h) == CHOOSE r \in Refs : r \notin DOMAIN h

\* The assignments updated[pid] = i of one call, applied to the map m.
Overlay(m, written) ==
    [x \in (DOMAIN m) \cup (DOMAIN written) |->
        IF x \in DOMAIN written THEN written[x] ELSE m[x]]

\* The call updateProcesses(old, processes, maxProcesses) with old the
\* reference ref: the heap after it and the reference returned.
updateProcessesByRef(h, ref, procs, maxP) ==
    LET updatedRef == MakeMap(h)
        made == IF updatedRef \in DOMAIN h THEN h ELSE Put(h, updatedRef, EmptyMap)
        res  == updateProcesses(made[ref], procs, maxP)
    IN  IF res.panic
        THEN [heap |-> made, ret |-> NoRef]
        ELSE [heap |-> Put(made, updatedRef, Overlay(made[updatedRef], res.updated)),
              ret |-> updatedRef]

RefInit ==
    /\ \E m \in PrevMaps : heap = Put(EmptyMap, "m1", m)
    /\ argRef = "m1"
    /\ retRef = NoRef
    /\ heapBefore = heap
    /\ processes \in {ProcessList(s) : s \in PidLists}
    /\ maxProcesses \in Capacities
    /\ upc = "input"
    /\ old = EmptyMap
    /\ output = NoResult
    /\ newOutput = NoResult
    /\ ColQuiet
    /\ timeout = 0
    /\ StQuiet
    /\ ConQuiet
    /\ HistQuiet

\* main.go:596, s.output = updateProcesses(s.input, s.processes, s.maxProcesses)
CallByRef ==
    /\ upc = "input"
    /\ LET r == updateProcessesByRef(heap, argRef, processes, maxProcesses)
       IN  /\ heap' = r.heap
           /\ retRef' = r.ret
    /\ heapBefore' = heap
    /\ upc' = "called"
    /\ UNCHANGED <<argRef, old, processes, maxProcesses, output, newOutput,
                   colVars, timeout, stVars, conVars, histVars>>

\* main.go:697, newOutput := updateProcesses(spec.output, spec.processes, ...)
CallAgainByRef ==
    /\ upc = "called"
    /\ retRef # NoRef
    /\ LET r == updateProcessesByRef(heap, retRef, processes, maxProcesses)
       IN  /\ heap' = r.heap
           /\ retRef' = r.ret
    /\ argRef' = retRef
    /\ heapBefore' = heap
    /\ upc' = "again"
    /\ UNCHANGED <<old, processes, maxProcesses, output, newOutput,
                   colVars, timeout, stVars, conVars, histVars>>

RefNext == CallByRef \/ CallAgainByRef

SpecRef == RefInit /\ [][RefNext]_vars

\* A call has been made.
Called == upc \in {"called", "again"}

\* The returned map is the one updateProcesses computes from the previous
\* map's entries.
ReturnedAsComputed ==
    (Called /\ retRef # NoRef) =>
        heap[retRef] =
            updateProcesses(heapBefore[argRef], processes, maxProcesses).updated

\* C23: after a call of updateProcesses the previous map, and every other
\* map held before the call, has the entries it had when the call began,
\* and the map returned is none of the maps held before the call.
C23_PreviousMapKept ==
    Called =>
        /\ argRef \in DOMAIN heapBefore
        /\ \A r \in DOMAIN heapBefore :
              r \in DOMAIN heap /\ heap[r] = heapBefore[r]
        /\ retRef # NoRef => retRef \notin DOMAIN heapBefore

\* C23 witness: a call on a non-empty previous map returned a map with
\* other entries, and the previous map still has its own.
C23_Witness ==
    /\ upc = "called"
    /\ retRef # NoRef
    /\ heap[argRef] # EmptyMap
    /\ heap[retRef] # heap[argRef]
    /\ heap[argRef] = heapBefore[argRef]

====
